---- MODULE Spec2Model ----
(***************************************************************************)
(* Model of src/extension.ts: the activation of the Vitest extension, the  *)
(* commands, run profiles and listeners it registers, the watch handler    *)
(* and the status bar effect.                                              *)
(*                                                                         *)
(* activate() is split at its two awaits (isVitestEnv, getVitestVersion).  *)
(* Every registered callback is one action.  The watch-mode run handler is *)
(* split at its await of testWatcher.watch().                              *)
(*                                                                         *)
(* TestWatcher (./watch), getVitestVersion (./pure/utils) and the host     *)
(* live outside extension.ts; what the model assumes about them is stated  *)
(* where they are defined.                                                 *)
(***************************************************************************)
EXTENDS Integers, Sequences, FiniteSets, TLC

\* ---------------------------------------------------------------- bounds
MaxEditors == 1
MaxReq == 2
MaxStatus == 1

\* ------------------------------------------------------------ value sets
FolderStates == {"undefined", "empty", "some"}
CommandLines == {"undefined", "empty", "custom"}
Versions == {<<0, 7, 9>>, <<0, 8, 0>>, <<1, 0, 0>>}
MinVersion == <<0, 8, 0>>
\* the value of vitestVersion when the probe rejected (and before the probe)
Undefined == <<>>
TestStatusValues == 0..MaxStatus
Requests == 1..MaxReq
Commands == {"ToggleWatching", "StartWatching", "StopWatching", "UpdateSnapshot"}
DocEvents == {"onDidOpenTextDocument", "onDidChangeTextDocument"}

VARIABLES
  workspaceFolders,  \* vscode.workspace.workspaceFolders
  cfgEnable,         \* getConfig().enable
  cfgCommandLine,    \* getConfig().commandLine
  envIsVitest,       \* what isVitestEnv(folder) answers
  visibleEditors,    \* number of vscode.window.visibleTextEditors
  peekView,          \* setting testing.automaticallyOpenPeekView
  pc,                \* position of activate()
  envProbed,         \* isVitestEnv has been called
  versionProbed,     \* getVitestVersion has been called
  probeOutcome,      \* "pending", "resolve" or "reject"
  nodeAvailable,     \* "unread", or what isNodeAvailable answered
  vitestVersion,     \* const vitestVersion: Undefined or a version
  customTestCmd,     \* const customTestCmd: "unset" or a command line
  ctrlCreated,       \* createTestController has been called
  handlers,          \* handlers installed on ctrl
  profiles,          \* run profiles created on ctrl
  commands,          \* command id -> kind of the registered handler
  listeners,         \* document events with a registered listener
  discoverCalls,     \* discoverTestFromDoc calls made by activate()
  log,               \* lines appended to the output channel
  errorMsg,          \* message given to showErrorMessage
  warned,            \* activate() called showWarningMessage
  watcher,           \* the TestWatcher, the status bar item and the effect
  reqs,              \* watch-mode run requests
  disposed,          \* context.subscriptions have been disposed
  lastOp,            \* the last callback the host invoked
  prevOp             \* the one before, when it ran the toggle handler

vars == <<workspaceFolders, cfgEnable, cfgCommandLine, envIsVitest,
          visibleEditors, peekView, pc, envProbed, versionProbed,
          probeOutcome, nodeAvailable, vitestVersion,
          customTestCmd, ctrlCreated, handlers, profiles, commands, listeners,
          discoverCalls, log, errorMsg, warned, watcher, reqs, disposed,
          lastOp, prevOp>>

envVars == <<cfgEnable, cfgCommandLine, envIsVitest, visibleEditors>>
activateVars == <<pc, envProbed, versionProbed, probeOutcome, nodeAvailable,
                  vitestVersion, customTestCmd, ctrlCreated,
                  handlers, profiles, commands, listeners, discoverCalls,
                  log, errorMsg, warned>>

\* ------------------------------------------------------- pure operators

\* semver.gte on MAJOR.MINOR.PATCH
SemverGte(a, b) ==
  \/ a[1] > b[1]
  \/ a[1] = b[1] /\ a[2] > b[2]
  \/ a[1] = b[1] /\ a[2] = b[2] /\ a[3] >= b[3]

\* JavaScript truthiness of getConfig().commandLine
TruthyCmd(c) == c = "custom"

VersionGateIgnoresVersion(version, cmdLine) == TRUE

\* (vitestVersion && semver.gte(vitestVersion, '0.8.0')) || customTestCmd
VersionGate(version, cmdLine) ==
  \/ version \in Versions /\ SemverGte(version, MinVersion)
  \/ TruthyCmd(cmdLine)

\* workspaceFolders == null || workspaceFolders.length === 0
NoFolders(f) == f \in {"undefined", "empty"}

EnableGateAlwaysOpen(enable, isEnv) == TRUE

\* !( !enable && !(await isVitestEnv(..)) ), with isEnv the probe's answer
EnableGate(enable, isEnv) == enable \/ isEnv

\* getVitestCommand(folder) ?? { cmd: 'npx', args: ['vitest'] }
VitestCmd(found) == IF found THEN "local" ELSE "npx"

\* ----------------------------------------------- status bar and effect

NoWatcher ==
  [exists |-> FALSE, isRunning |-> FALSE, isWatching |-> FALSE,
   testStatus |-> 0, mode |-> "none", shown |-> 0, deps |-> {}]

RunEffectWatchFirst(w) ==
  IF w.isWatching
    THEN [w EXCEPT !.mode = "watch", !.shown = w.testStatus,
                   !.deps = {"isWatching", "testStatus"}]
    ELSE IF w.isRunning
      THEN [w EXCEPT !.mode = "running", !.deps = {"isWatching", "isRunning"}]
      ELSE [w EXCEPT !.mode = "default", !.deps = {"isWatching", "isRunning"}]

\* the body of effect(() => { ... }); deps are the refs the run has read
RunEffect(w) ==
  IF w.isRunning
    THEN [w EXCEPT !.mode = "running", !.deps = {"isRunning"}]
    ELSE IF w.isWatching
      THEN [w EXCEPT !.mode = "watch", !.shown = w.testStatus,
                     !.deps = {"isRunning", "isWatching", "testStatus"}]
      ELSE [w EXCEPT !.mode = "default", !.deps = {"isRunning", "isWatching"}]

\* ref.value = val: a changed ref re-runs the effects that read it
SetRef(w, ref, val) ==
  IF w[ref] = val
    THEN w
    ELSE LET w2 == [w EXCEPT ![ref] = val]
         IN IF ref \in w.deps THEN RunEffect(w2) ELSE w2

\* TestWatcher.create(..), new StatusBarItem(), effect(..)
NewWatcher == RunEffect([NoWatcher EXCEPT !.exists = TRUE])

\* TestWatcher.watch(): watching starts, the first run is in progress
WatcherWatch(w) ==
  IF w.isWatching
    THEN w
    ELSE SetRef(SetRef(w, "isRunning", TRUE), "isWatching", TRUE)

\* TestWatcher.dispose(): watching stops
WatcherDispose(w) ==
  SetRef(SetRef(w, "isWatching", FALSE), "isRunning", FALSE)

\* -------------------------------------------------- registered handlers

Result(w, pv, calls) == [w |-> w, pv |-> pv, calls |-> calls]

\* const stopWatching = () => { ... }
StopWatching(w, pv) ==
  Result(WatcherDispose(w), "undefined",
         <<"dispose", "update:undefined">>)

\* const startWatching = () => { ... }
StartWatching(w, pv) ==
  Result(WatcherWatch(w), "never", <<"watch", "update:never">>)

ToggleAlwaysStarts(w, pv) == StartWatching(w, pv)

\* the ToggleWatching handler of the enabled branch
ToggleWatching(w, pv) ==
  IF w.isWatching THEN StopWatching(w, pv) ELSE StartWatching(w, pv)

\* the handler registered under a command id, by kind
HandleCommand(kind, w, pv) ==
  CASE kind = "toggle" -> ToggleWatching(w, pv)
    [] kind = "start" -> StartWatching(w, pv)
    [] kind = "stop" -> StopWatching(w, pv)
    [] kind = "updateSnapshot" -> Result(w, pv, <<"updateSnapshot">>)
    [] kind = "warn" -> Result(w, pv, <<"showWarningMessage">>)
    [] OTHER -> Result(w, pv, <<>>)

NoCommands == [c \in Commands |-> "none"]

\* the commands registered by registerWatchHandler and the enabled branch
EnabledCommands ==
  [c \in Commands |->
     CASE c = "ToggleWatching" -> "toggle"
       [] c = "StartWatching" -> "start"
       [] c = "StopWatching" -> "stop"
       [] c = "UpdateSnapshot" -> "updateSnapshot"]

DisabledCommandsStillToggle ==
  [c \in Commands |->
     CASE c = "ToggleWatching" -> "toggle"
       [] c = "UpdateSnapshot" -> "warn"
       [] OTHER -> "none"]

\* the commands registered by the else branch
DisabledCommands ==
  [c \in Commands |->
     IF c \in {"ToggleWatching", "UpdateSnapshot"} THEN "warn" ELSE "none"]

\* registerWatchHandler, then registerRunHandler
EnabledProfiles == {"Run Tests (Watch Mode)", "Run Tests", "Debug Tests"}

DiscoverNoEditor(n) == 0

\* visibleTextEditors.forEach(x => discoverTestFromDoc(ctrl, x.document))
DiscoverVisibleEditors(n) == n

\* the document listeners pushed to context.subscriptions
DocListeners == {"onDidOpenTextDocument", "onDidChangeTextDocument"}

\* a callback invocation: what was invoked, the handler that ran, whether
\* activate() had completed and the subscriptions were live (document events),
\* isWatching at the invocation (commands), and the calls the handler made
Op(cmd, kind, wired, was, calls) ==
  [cmd |-> cmd, handler |-> kind, wired |-> wired,
   wasWatching |-> was, calls |-> calls]

NoOp == Op("none", "none", FALSE, FALSE, <<>>)

\* prevOp keeps the invocation before the last one when it was a toggle
Shift(op) == IF op.handler = "toggle" THEN op ELSE NoOp

\* a run request: the handler's position, the folders it saw, the promise
\* of watch(), and the number of runTests calls
NewRequest ==
  [pc |-> "new", folders |-> "unread", watch |-> "none", runTests |-> 0]

RunHandlerNoAwait(folders, req) ==
  IF folders \in {"undefined", "empty"}
    THEN [req EXCEPT !.pc = "returned", !.folders = folders]
    ELSE [req EXCEPT !.pc = "done", !.folders = folders,
                     !.watch = "pending", !.runTests = req.runTests + 1]

\* runHandler up to its await: the guard and the call of watch()
RunHandlerBegin(folders, req) ==
  IF folders \in {"undefined", "empty"}
    THEN [req EXCEPT !.pc = "returned", !.folders = folders]
    ELSE [req EXCEPT !.pc = "awaitWatch", !.folders = folders,
                     !.watch = "pending"]

\* runHandler after its await: runTests(request.include)
RunHandlerResume(req) ==
  IF req.watch = "resolved"
    THEN [req EXCEPT !.pc = "done", !.runTests = req.runTests + 1]
    ELSE [req EXCEPT !.pc = "failed"]

\* ------------------------------------------------------------------ Init
Init ==
  /\ workspaceFolders \in FolderStates
  /\ cfgEnable \in BOOLEAN
  /\ cfgCommandLine \in CommandLines
  /\ envIsVitest \in BOOLEAN
  /\ visibleEditors \in 0..MaxEditors
  /\ peekView \in {"undefined", "failureInVisibleDocument"}
  /\ pc = "start"
  /\ envProbed = FALSE
  /\ versionProbed = FALSE
  /\ probeOutcome = "pending"
  /\ nodeAvailable = "unread"
  /\ vitestVersion = Undefined
  /\ customTestCmd = "unset"
  /\ ctrlCreated = FALSE
  /\ handlers = {}
  /\ profiles = {}
  /\ commands = NoCommands
  /\ listeners = {}
  /\ discoverCalls = 0
  /\ log = <<>>
  /\ errorMsg = "none"
  /\ warned = FALSE
  /\ watcher = NoWatcher
  /\ reqs = [r \in Requests |-> NewRequest]
  /\ disposed = FALSE
  /\ lastOp = NoOp
  /\ prevOp = NoOp

\* --------------------------------------------------------------- activate

\* lines 28-58: the controller, its handlers, the version probe
Setup ==
  /\ ctrlCreated' = TRUE
  /\ handlers' = {"refreshHandler", "resolveHandler"}
  /\ versionProbed' = TRUE
  /\ pc' = "awaitVersion"

\* lines 16-26, up to the await of isVitestEnv when it is reached
ActivateStart ==
  /\ pc = "start"
  /\ IF NoFolders(workspaceFolders)
       THEN /\ pc' = "returned"
            /\ UNCHANGED <<envProbed, ctrlCreated, handlers, versionProbed>>
       ELSE IF ~cfgEnable
         THEN /\ pc' = "awaitEnv"
              /\ envProbed' = TRUE
              /\ UNCHANGED <<ctrlCreated, handlers, versionProbed>>
         ELSE /\ Setup
              /\ UNCHANGED envProbed
  /\ UNCHANGED <<workspaceFolders, envVars, peekView, probeOutcome,
                 nodeAvailable, vitestVersion, customTestCmd, profiles,
                 commands, listeners, discoverCalls, log, errorMsg, warned,
                 watcher, reqs, disposed, lastOp, prevOp>>

\* isVitestEnv has answered
ActivateEnvResolved ==
  /\ pc = "awaitEnv"
  /\ IF EnableGate(cfgEnable, envIsVitest)
       THEN Setup
       ELSE /\ pc' = "returned"
            /\ UNCHANGED <<ctrlCreated, handlers, versionProbed>>
  /\ UNCHANGED <<workspaceFolders, envVars, peekView, envProbed,
                 probeOutcome, nodeAvailable, vitestVersion, customTestCmd,
                 profiles, commands, listeners, discoverCalls, log, errorMsg,
                 warned, watcher, reqs, disposed, lastOp, prevOp>>

CatchHintAlways(node) ==
  [log |-> <<"error", "PATH", "nodeEnv", "Cannot spawn node process">>,
   errorMsg |-> "error+hint"]

\* the .catch callback of the version probe, lines 58-69
ProbeCatch(node) ==
  IF ~node
    THEN [log |-> <<"error", "PATH", "nodeEnv", "Cannot spawn node process">>,
          errorMsg |-> "error+hint"]
    ELSE [log |-> <<"error", "PATH", "nodeEnv">>, errorMsg |-> "error"]

\* registerWatchHandler(vitestCmd, ..): the watcher, status bar and effect
RegisterWatchHandler(cmd) ==
  IF cmd = "undefined" THEN NoWatcher ELSE NewWatcher

\* lines 73-122, run when the version probe settles; vitestCmd is the
\* command found in the workspace folder or the npx default, never undefined
ActivateFinish(version) ==
  /\ vitestVersion' = version
  /\ customTestCmd' = cfgCommandLine
  /\ IF VersionGate(version, cfgCommandLine)
       THEN /\ \E found \in BOOLEAN :
                 watcher' = RegisterWatchHandler(VitestCmd(found))
            /\ commands' = EnabledCommands
            /\ profiles' = EnabledProfiles
            /\ warned' = FALSE
       ELSE /\ commands' = DisabledCommands
            /\ warned' = TRUE
            /\ UNCHANGED <<watcher, profiles>>
  /\ discoverCalls' = DiscoverVisibleEditors(visibleEditors)
  /\ listeners' = DocListeners
  /\ pc' = "done"

\* getVitestVersion resolves with a version
ActivateVersionResolved ==
  /\ pc = "awaitVersion"
  /\ \E v \in Versions :
       /\ probeOutcome' = "resolve"
       /\ ActivateFinish(v)
  /\ UNCHANGED <<workspaceFolders, envVars, peekView, envProbed,
                 versionProbed, nodeAvailable, ctrlCreated,
                 handlers, log, errorMsg, reqs, disposed, lastOp, prevOp>>

\* getVitestVersion rejects: the catch callback runs, the version is
\* undefined and activate goes on
ActivateVersionRejected ==
  /\ pc = "awaitVersion"
  /\ probeOutcome' = "reject"
  /\ \E node \in BOOLEAN :
       /\ nodeAvailable' = IF node THEN "yes" ELSE "no"
       /\ log' = ProbeCatch(node).log
       /\ errorMsg' = ProbeCatch(node).errorMsg
  /\ ActivateFinish(Undefined)
  /\ UNCHANGED <<workspaceFolders, envVars, peekView, envProbed,
                 versionProbed, ctrlCreated, handlers, reqs,
                 disposed, lastOp, prevOp>>

\* --------------------------------------------------------- host callbacks

Wired == pc = "done" /\ ~disposed

\* the host runs the handler registered under command id c, if any
ExecuteCommand(c) ==
  /\ pc # "start"
  /\ LET kind == IF disposed THEN "none" ELSE commands[c]
         res == HandleCommand(kind, watcher, peekView)
     IN /\ watcher' = res.w
        /\ peekView' = res.pv
        /\ lastOp' = Op(c, kind, FALSE, watcher.isWatching, res.calls)
  /\ prevOp' = Shift(lastOp)
  /\ UNCHANGED <<workspaceFolders, envVars, activateVars, reqs, disposed>>

\* a document is opened or changed
DocEvent(e) ==
  /\ pc # "start"
  /\ lastOp' = Op(e, "listener", Wired, FALSE,
                  IF e \in listeners /\ ~disposed
                    THEN <<"discoverTestFromDoc">> ELSE <<>>)
  /\ prevOp' = Shift(lastOp)
  /\ UNCHANGED <<workspaceFolders, envVars, activateVars, peekView, watcher,
                 reqs, disposed>>

\* ctrl.refreshHandler
RefreshTests ==
  /\ "refreshHandler" \in handlers
  /\ ~disposed
  /\ lastOp' = Op("refresh", "refreshHandler", FALSE, FALSE,
                  <<"discoverAllTestFilesInWorkspace">>)
  /\ prevOp' = Shift(lastOp)
  /\ UNCHANGED <<workspaceFolders, envVars, activateVars, peekView, watcher,
                 reqs, disposed>>

\* ctrl.resolveHandler(item): item is absent, a test file or another item
ResolveTests(item) ==
  /\ "resolveHandler" \in handlers
  /\ ~disposed
  /\ lastOp' = Op("resolve", "resolveHandler", FALSE, FALSE,
                  CASE item = "none" -> <<"watchAllTestFilesInWorkspace">>
                    [] item = "file" -> <<"updateFromDisk">>
                    [] OTHER -> <<>>)
  /\ prevOp' = Shift(lastOp)
  /\ UNCHANGED <<workspaceFolders, envVars, activateVars, peekView, watcher,
                 reqs, disposed>>

\* a run request on 'Run Tests (Watch Mode)': runHandler up to its await
RunWatchRequest(r) ==
  /\ "Run Tests (Watch Mode)" \in profiles
  /\ ~disposed
  /\ reqs[r].pc = "new"
  /\ reqs' = [reqs EXCEPT ![r] = RunHandlerBegin(workspaceFolders, reqs[r])]
  /\ watcher' = IF reqs'[r].watch = "none" THEN watcher
                ELSE WatcherWatch(watcher)
  /\ lastOp' = Op("runRequest", "runHandler", FALSE, FALSE,
                  IF reqs'[r].watch = "none" THEN <<>> ELSE <<"watch">>)
  /\ prevOp' = Shift(lastOp)
  /\ UNCHANGED <<workspaceFolders, envVars, activateVars, peekView,
                 disposed>>

\* the promise returned by watch() settles
WatchSettled(r) ==
  /\ reqs[r].watch = "pending"
  /\ \E outcome \in {"resolved", "rejected"} :
       reqs' = [reqs EXCEPT ![r].watch = outcome]
  /\ UNCHANGED <<workspaceFolders, envVars, activateVars, peekView, watcher,
                 disposed, lastOp, prevOp>>

\* runHandler resumes after its await
RunWatchResume(r) ==
  /\ reqs[r].pc = "awaitWatch"
  /\ reqs[r].watch \in {"resolved", "rejected"}
  /\ reqs' = [reqs EXCEPT ![r] = RunHandlerResume(reqs[r])]
  /\ lastOp' = Op("runResume", "runHandler", FALSE, FALSE,
                  IF reqs[r].watch = "resolved" THEN <<"runTests">> ELSE <<>>)
  /\ prevOp' = Shift(lastOp)
  /\ UNCHANGED <<workspaceFolders, envVars, activateVars, peekView, watcher,
                 disposed>>

\* the watcher's process reports: a run starts or ends, the counts change
WatcherUpdate ==
  /\ watcher.exists
  /\ \/ \E b \in BOOLEAN : watcher' = SetRef(watcher, "isRunning", b)
     \/ \E s \in TestStatusValues : watcher' = SetRef(watcher, "testStatus", s)
  /\ watcher' # watcher
  /\ UNCHANGED <<workspaceFolders, envVars, activateVars, peekView, reqs,
                 disposed, lastOp, prevOp>>

\* the host changes the workspace folders after activation
WorkspaceFoldersChanged ==
  /\ pc \in {"done", "returned"}
  /\ \E f \in FolderStates :
       /\ f # workspaceFolders
       /\ workspaceFolders' = f
  /\ UNCHANGED <<envVars, activateVars, peekView, watcher, reqs, disposed,
                 lastOp, prevOp>>

\* context.subscriptions are disposed, in the order they were pushed
DisposeSubscriptions ==
  /\ pc = "done"
  /\ ~disposed
  /\ disposed' = TRUE
  /\ IF watcher.exists
       THEN LET res == StopWatching(watcher, peekView)
            IN /\ watcher' = WatcherDispose(res.w)
               /\ peekView' = res.pv
               /\ lastOp' = Op("dispose", "subscriptions", FALSE,
                               FALSE, res.calls \o <<"dispose">>)
       ELSE /\ UNCHANGED <<watcher, peekView>>
            /\ lastOp' = Op("dispose", "subscriptions", FALSE,
                            FALSE, <<>>)
  /\ prevOp' = Shift(lastOp)
  /\ UNCHANGED <<workspaceFolders, envVars, activateVars, reqs>>

\* activation and the wiring it leaves behind, for every configuration
Next ==
  \/ ActivateStart
  \/ ActivateEnvResolved
  \/ ActivateVersionResolved
  \/ ActivateVersionRejected
  \/ \E c \in Commands : ExecuteCommand(c)
  \/ \E e \in DocEvents : DocEvent(e)
  \/ RefreshTests
  \/ \E item \in {"none", "file", "other"} : ResolveTests(item)
  \/ DisposeSubscriptions

Spec == Init /\ [][Next]_vars

\* the watcher at work: the extension is enabled by its setting, in a
\* workspace with a folder, no custom command line and no editor open
InitWatch ==
  /\ Init
  /\ workspaceFolders = "some"
  /\ cfgEnable
  /\ envIsVitest
  /\ cfgCommandLine = "undefined"
  /\ visibleEditors = 0
  /\ peekView = "undefined"

NextWatch ==
  \/ ActivateStart
  \/ ActivateVersionResolved
  \/ ActivateVersionRejected
  \/ \E c \in Commands : ExecuteCommand(c)
  \/ \E r \in Requests : RunWatchRequest(r)
  \/ \E r \in Requests : WatchSettled(r)
  \/ \E r \in Requests : RunWatchResume(r)
  \/ WatcherUpdate
  \/ WorkspaceFoldersChanged
  \/ DisposeSubscriptions

SpecWatch == InitWatch /\ [][NextWatch]_vars

\* ----------------------------------------------------------------- claims

VersionOk == vitestVersion \in Versions /\ SemverGte(vitestVersion, MinVersion)
RunRegistered == watcher.exists \/ profiles # {}

NothingRegistered ==
  /\ ~ctrlCreated
  /\ ~versionProbed
  /\ handlers = {}
  /\ profiles = {}
  /\ commands = NoCommands
  /\ listeners = {}
  /\ ~watcher.exists

\* C2: with no workspace folders, or with 'enable' false in a folder that is
\* not a vitest environment, activate creates no controller, runs no version
\* probe and registers nothing; with 'enable' true activation proceeds
\* without asking the environment probe.
C2_EntryGates ==
  /\ (NoFolders(workspaceFolders) \/ (~cfgEnable /\ ~envIsVitest))
       => NothingRegistered /\ pc \in {"start", "awaitEnv", "returned"}
  /\ (cfgEnable /\ ~NoFolders(workspaceFolders) /\ pc # "start")
       => ctrlCreated /\ versionProbed /\ ~envProbed
          /\ pc \in {"awaitVersion", "done"}

C2_Witness ==
  /\ pc = "returned"
  /\ workspaceFolders = "some"
  /\ ~cfgEnable
  /\ ~envIsVitest
  /\ envProbed

\* C3: once the status bar exists its mode is 'running' if isRunning,
\* otherwise 'watch' showing the current testStatus if isWatching, otherwise
\* 'default'.
C3_StatusBarRendersState ==
  watcher.exists =>
    /\ watcher.mode = IF watcher.isRunning THEN "running"
                      ELSE IF watcher.isWatching THEN "watch" ELSE "default"
    /\ watcher.mode = "watch" => watcher.shown = watcher.testStatus

C3_Witness ==
  /\ watcher.exists
  /\ watcher.isWatching
  /\ ~watcher.isRunning
  /\ watcher.testStatus = 1
  /\ watcher.mode = "watch"
  /\ watcher.shown = 1

\* C4: every activation that passes the entry gates installs the refresh
\* and resolve handlers and, in either branch of the version check, calls
\* discoverTestFromDoc once per visible editor and once per later
\* document-open or document-change event.
C4_DiscoveryWired ==
  /\ pc \in {"awaitVersion", "done"}
       => handlers = {"refreshHandler", "resolveHandler"}
  /\ pc = "done"
       => discoverCalls = visibleEditors /\ listeners = DocEvents
  /\ (lastOp.handler = "listener" /\ lastOp.wired)
       => lastOp.calls = <<"discoverTestFromDoc">>

C4_Witness ==
  /\ pc = "done"
  /\ ~VersionOk
  /\ ~TruthyCmd(customTestCmd)
  /\ visibleEditors = 1
  /\ discoverCalls = 1
  /\ lastOp.cmd = "onDidChangeTextDocument"
  /\ lastOp.wired

C6_ToggleByIsWatching ==
  lastOp.handler = "toggle" =>
    /\ lastOp.calls = IF lastOp.wasWatching
                        THEN <<"dispose", "update:undefined">>
                        ELSE <<"watch", "update:never">>
    /\ watcher.isWatching = ~lastOp.wasWatching
    /\ prevOp.handler = "toggle" => watcher.isWatching = prevOp.wasWatching

C6_Witness ==
  /\ lastOp.handler = "toggle"
  /\ lastOp.wasWatching
  /\ prevOp.handler = "toggle"
  /\ ~prevOp.wasWatching
  /\ ~watcher.isWatching

\* C7: for every watch-mode run request, runTests is called at most once and
\* only after the promise of watch() has resolved; a request that finds no
\* workspace folders calls neither watch() nor runTests().
C7_RunAfterWatch ==
  \A r \in Requests :
    /\ reqs[r].runTests <= 1
    /\ reqs[r].runTests > 0 => reqs[r].watch = "resolved"
    /\ NoFolders(reqs[r].folders)
         => reqs[r].watch = "none" /\ reqs[r].runTests = 0

C7_Witness ==
  /\ reqs[1].pc = "done"
  /\ reqs[1].runTests = 1
  /\ reqs[2].folders = "empty"
  /\ reqs[2].pc = "returned"

DisabledCase == pc = "done" /\ ~VersionOk /\ ~TruthyCmd(customTestCmd)

\* C8: in the disabled branch there is no watcher, no status bar item and no
\* run profile; ToggleWatching and UpdateSnapshot only show the warning,
\* StartWatching and StopWatching are not registered, and no step changes
\* the watcher or testing.automaticallyOpenPeekView.
C8_DisabledBranchInert ==
  /\ [](DisabledCase =>
          /\ watcher = NoWatcher
          /\ profiles = {}
          /\ commands = DisabledCommands
          /\ warned
          /\ lastOp.handler \in {"none", "warn", "listener", "refreshHandler",
                                  "resolveHandler", "subscriptions"}
          /\ lastOp.handler = "warn"
               => /\ lastOp.cmd \in {"ToggleWatching", "UpdateSnapshot"}
                  /\ lastOp.calls = <<"showWarningMessage">>
          /\ lastOp.cmd \in {"StartWatching", "StopWatching"}
               => lastOp.calls = <<>>)
  /\ [][DisabledCase => watcher' = watcher /\ peekView' = peekView]_vars

C8_Witness ==
  /\ DisabledCase
  /\ lastOp.cmd = "ToggleWatching"
  /\ lastOp.handler = "warn"
  /\ peekView = "failureInVisibleDocument"

\* C9 as stated: testing.automaticallyOpenPeekView is 'never' whenever the
\* watcher is watching, and undefined once watching has been stopped.
C9_PeekViewTracksWatching ==
  watcher.exists =>
    /\ watcher.isWatching => peekView = "never"
    /\ (lastOp.calls # <<>> /\ Head(lastOp.calls) = "dispose")
         => peekView = "undefined"

====
